---- MODULE Spec2Model ----
(***************************************************************************)
(* Model of daq_slices_sweep.py: process_event (the per-event pipeline),   *)
(* process_with_params (the sweep driver), update_config_parameter, and    *)
(* parse_args with main (the command line).                                *)
(*                                                                         *)
(* The signal primitives, the reader/writer and the configuration store    *)
(* are external: what they return (number of ZLE records, hit lists, a     *)
(* raised exception) is an input drawn from small sets.                    *)
(***************************************************************************)
EXTENDS Integers, Sequences, FiniteSets, TLC

\* ---------------------------------------------------------------- bounds
MaxGates == 2
MaxZle == 2
MaxHits == 2
MaxValues == 2
MaxEvents == 2
\* passes of one sweep that a raised exception abandons
MaxFailures == 1

\* sample offsets a hit may carry, and the sweep values of the value list
Samples == {0, 1}
Values == {5, 10}

\* gain means returned by get_zle_gain_veto() / get_hit_gain_veto()
ZleIntegralMean == 2
HitIntegralMean == 3
HitMaxMean == 4

\* tag of the records of the outside-gates pass (gates are 1..nG)
OutsideGate == 0

VARIABLES
    \* main
    kwargs, ki, pwp_calls, cfg_before,
    \* process_with_params
    reader_kwargs, section, param, values, vi, pc, elec_cfg,
    open_readers, open_writers, files, valid_events, ei, nEvents,
    \* process_event
    nG, g, hits, zles, summed_wfs, out, ret,
    \* history of the inputs and of the calls made
    gate_fail, outside_ok, attempted, calls, true_ret, raised_ev, abandoned,
    opened_with, cfg_seen

main_vars == <<kwargs, ki, pwp_calls, cfg_before, reader_kwargs>>
seen_vars == <<opened_with, cfg_seen>>
pwp_vars == <<main_vars, section, param, values, vi, elec_cfg, open_readers, open_writers,
              files, valid_events, ei, nEvents>>
pe_vars == <<nG, g, hits, zles, summed_wfs, out, ret, gate_fail, outside_ok>>
hist_vars == <<attempted, calls, true_ret, raised_ev, abandoned, seen_vars>>
vars == <<pwp_vars, pc, pe_vars, hist_vars>>

\* ------------------------------------------------------------ sequences
RECURSIVE SumLen(_)
SumLen(ls) == IF ls = <<>> THEN 0 ELSE Len(Head(ls)) + SumLen(Tail(ls))

RECURSIVE concat_recarrays(_)
concat_recarrays(ls) == IF ls = <<>> THEN <<>> ELSE Head(ls) \o concat_recarrays(Tail(ls))

SeqsUpTo(S, n) == UNION {[1..k -> S] : k \in 0..n}

Count(s, x) == Cardinality({i \in DOMAIN s : s[i] = x})
Range(s) == {s[i] : i \in DOMAIN s}
IsPermutation(s, t) ==
    /\ Len(s) = Len(t)
    /\ \A x \in Range(s) \cup Range(t) : Count(s, x) = Count(t, x)

\* ------------------------------------------------- configuration store
CfgKeys == {"daq.snr", "daq.sampling", "daq.jitter", "daq.noise_spectrum",
            "sipm.dcr", "sipm.tau", "zle.pre_threshold", "zle.post_threshold",
            "zle.pre_trigger", "zle.post_trigger"}

\* unit scales of dsutils.nu
MHz == 1000
ns == 10
Hz == 100

\* a Python value with its type: an int, a float (here always a whole number)
\* or a str
PyInt(n) == [t |-> "int", v |-> n]
PyFloat(n) == [t |-> "float", v |-> n]
PyStr(s) == [t |-> "str", v |-> s]
PyNone == [t |-> "None", v |-> "None"]

\* f"{value}" and str(value): 5 gives "5", 5.0 gives "5.0"
Format(value) ==
    IF value.t = "int" THEN ToString(value.v)
    ELSE IF value.t = "float" THEN ToString(value.v) \o ".0"
    ELSE value.v

\* float(value) * scale, int(value), str(value)
CfgFloat(value, scale) == PyFloat(value.v * scale)
CfgInt(value) == PyInt(value.v)
CfgStr(value) == PyStr(Format(value))

\* the store as loaded from dselec.ini
ConfigDefault == [k \in CfgKeys |-> PyFloat(1)]

cfg_set(cfg, key, val) == [cfg EXCEPT ![key] = val]

\* a wrong update: the key is built from section and parameter for every
\* combination and the value is stored as an unscaled float
update_config_parameter_generic(cfg, sec, par, value) ==
    ((sec \o "." \o par) :> PyFloat(value.v)) @@ cfg

\* float(value) or int(value) raises ValueError: the combination wants a
\* number and the value is a str that is not a numeral (as all str values here)
update_raises(sec, par, value) ==
    /\ value.t = "str"
    /\ \/ sec = "daq" /\ par \in {"snr", "sampling", "jitter"}
       \/ sec = "sipm" /\ par \in {"dcr", "tau"}
       \/ sec = "zle" /\ par \in {"pre_threshold", "post_threshold",
                                     "pre_trigger", "post_trigger"}

update_config_parameter(cfg, sec, par, value) ==
    IF sec = "daq" THEN
        IF par = "snr" THEN cfg_set(cfg, "daq.snr", CfgFloat(value, 1))
        ELSE IF par = "sampling" THEN cfg_set(cfg, "daq.sampling", CfgFloat(value, MHz))
        ELSE IF par = "jitter" THEN cfg_set(cfg, "daq.jitter", CfgFloat(value, ns))
        ELSE IF par = "noise_spectrum" THEN cfg_set(cfg, "daq.noise_spectrum", CfgStr(value))
        ELSE cfg
    ELSE IF sec = "sipm" THEN
        IF par = "dcr" THEN cfg_set(cfg, "sipm.dcr", CfgFloat(value, Hz))
        ELSE IF par = "tau" THEN cfg_set(cfg, "sipm.tau", CfgFloat(value, ns))
        ELSE cfg
    ELSE IF sec = "zle" THEN
        IF par \in {"pre_threshold", "post_threshold"}
            THEN cfg_set(cfg, "zle." \o par, CfgFloat(value, 1))
        ELSE IF par \in {"pre_trigger", "post_trigger"}
            THEN cfg_set(cfg, "zle." \o par, CfgInt(value))
        ELSE cfg
    ELSE cfg

\* ------------------------------------------------------ records of an event
\* what one extraction (find_zle_intervals + find_hits, or
\* find_effective_zles_hits) returns: nz ZLE records and a hit list whose
\* zle_id is a local index 0..nz-1 into those records
Extractions(maxZ, maxH) ==
    UNION {{[nz |-> n, h |-> s] :
              s \in SeqsUpTo([zle_id : 0..(n - 1), sample : Samples], maxH)} :
           n \in 0..maxZ}

\* the records carry the gate that produced them (gate, k, zk are tags)
ZleRecs(gt, nz) ==
    [k \in 1..nz |-> [gate |-> gt, k |-> k - 1, integral |-> ZleIntegralMean * k]]

HitRecs(gt, hs) ==
    [i \in 1..Len(hs) |->
        [zle_id |-> hs[i].zle_id, sample |-> hs[i].sample, gate |-> gt,
         zk |-> hs[i].zle_id,
         integral |-> HitIntegralMean * (1 + hs[i].sample),
         max |-> HitMaxMean * (2 + hs[i].sample)]]

None == <<>>

EmptyEvent == [pe |-> FALSE, zles |-> <<>>, hits |-> <<>>, top_wf |-> None, bot_wf |-> None]

\* sum_zles: the running accumulator, here the gates summed into it so far
sum_zles(summed, gt) == Append(summed, gt)

downsample_summed_wfs(summed) == summed

\* a wrong offset: the number of lists collected, not the number of records
ZleOffsetLists(zs) == Len(zs)

\* h['zle_id'] += sum(len(_z) for _z in zles)
ZleOffset(zs) == SumLen(zs)

OffsetHits(h, zs) == [i \in 1..Len(h) |-> [h[i] EXCEPT !.zle_id = @ + ZleOffset(zs)]]

NormalizeZles(zs) ==
    [i \in 1..Len(zs) |-> [zs[i] EXCEPT !.integral = @ \div ZleIntegralMean]]

NormalizeHits(hs) ==
    [i \in 1..Len(hs) |->
        [hs[i] EXCEPT !.integral = @ \div HitIntegralMean, !.max = @ \div HitMaxMean]]

\* order=['zle_id', 'sample']
HitLeq(a, b) == a.zle_id < b.zle_id \/ (a.zle_id = b.zle_id /\ a.sample <= b.sample)

RECURSIVE InsertHit(_, _)
InsertHit(x, s) ==
    IF s = <<>> THEN <<x>>
    ELSE IF HitLeq(x, Head(s)) THEN <<x>> \o s
    ELSE <<Head(s)>> \o InsertHit(x, Tail(s))

RECURSIVE SortHits(_)
SortHits(hs) == IF hs = <<>> THEN <<>> ELSE InsertHit(Head(hs), SortHits(Tail(hs)))

\* a wrong ordering: by zle_id alone
RECURSIVE InsertHitByZle(_, _)
InsertHitByZle(x, s) ==
    IF s = <<>> THEN <<x>>
    ELSE IF x.zle_id <= Head(s).zle_id THEN <<x>> \o s
    ELSE <<Head(s)>> \o InsertHitByZle(x, Tail(s))

RECURSIVE sort_hits_by_zle_id(_)
sort_hits_by_zle_id(hs) ==
    IF hs = <<>> THEN <<>> ELSE InsertHitByZle(Head(hs), sort_hits_by_zle_id(Tail(hs)))

\* out['hits'].sort(order=['zle_id', 'sample'])
sort_hits(hs) == SortHits(hs)

\* ------------------------------------------------------------ process_event
\* where a gate's processing raises: "abc" in steps a-c (lines 56-59, before the
\* summation), "d_short" the ValueError "ZLE interval too short" of sum_zles,
\* "d_other" any other failure of sum_zles, "ef" in steps e-f (lines 71-72, after
\* the summation and before the appends), "h" in the downsampling (line 78),
\* "none" no failure.  The list appends of step g do not raise.
GateFailures == {"none", "abc", "d_short", "d_other", "ef", "h"}

PEReset ==
    /\ nG' = 0
    /\ g' = 1
    /\ hits' = <<>>
    /\ zles' = <<>>
    /\ summed_wfs' = None
    /\ out' = EmptyEvent
    /\ ret' = "none"
    /\ gate_fail' = <<>>
    /\ outside_ok' = FALSE

\* lines 48-52: locals, gate discovery, noise and jitter on the PE copy
PE_Begin(maxG) ==
    /\ pc = "pe_entry"
    /\ \E n \in 0..maxG : nG' = n
    /\ g' = 1
    /\ hits' = <<>>
    /\ zles' = <<>>
    /\ summed_wfs' = None
    /\ out' = [out EXCEPT !.pe = TRUE]
    /\ pc' = "gates"
    /\ UNCHANGED <<pwp_vars, ret, gate_fail, outside_ok, hist_vars>>

\* the gate is left by the handler of line 80 (or the continue of line 67)
\* with the running lists as they are
GateSkipped(f, summed) ==
    /\ summed_wfs' = summed
    /\ gate_fail' = Append(gate_fail, f)
    /\ UNCHANGED <<hits, zles, out>>

\* lines 71-74: hit extraction, offsetting, appending
GateAppended(f, x, summed) ==
    /\ summed_wfs' = summed
    /\ gate_fail' = Append(gate_fail, f)
    /\ zles' = Append(zles, ZleRecs(g, x.nz))
    /\ hits' = Append(hits, OffsetHits(HitRecs(g, x.h), zles))

\* the extractions that keep the event within MaxZle ZLE records and MaxHits
\* hit records in all
Fitting(E) ==
    LET roomZ == MaxZle - SumLen(zles)
        roomH == MaxHits - SumLen(hits)
    IN  {x \in E : x.nz <= roomZ /\ Len(x.h) <= roomH}

\* lines 54-82: one iteration of the gate loop
PE_Gate(E, F) ==
    /\ pc = "gates"
    /\ g <= nG
    /\ LET summed == sum_zles(summed_wfs, g) IN
       \/ \E f \in F \cap {"abc", "d_short", "d_other"} :
             GateSkipped(f, summed_wfs)
       \/ \E f \in F \cap {"ef"} :
             GateSkipped(f, summed)
       \/ \E x \in Fitting(E) :
             /\ "h" \in F
             /\ summed # None
             /\ GateAppended("h", x, summed)
             /\ UNCHANGED out
       \/ \E x \in Fitting(E) :
             /\ "none" \in F
             /\ GateAppended("none", x, summed)
             /\ out' = IF summed # None
                         THEN [out EXCEPT !.top_wf = downsample_summed_wfs(summed),
                                          !.bot_wf = downsample_summed_wfs(summed)]
                         ELSE out
    /\ g' = g + 1
    /\ UNCHANGED <<pwp_vars, pc, nG, ret, outside_ok, hist_vars>>

\* a wrong outside-gates step: the ZLE records are appended before the hits
\* are offset, so a failure of the offsetting leaves them in the list
PE_OutsideAppendsFirst(E) ==
    /\ pc = "gates"
    /\ g > nG
    /\ \/ \E x \in Fitting(E) :
            /\ zles' = Append(zles, ZleRecs(OutsideGate, x.nz))
            /\ hits' = Append(hits, OffsetHits(HitRecs(OutsideGate, x.h), zles))
            /\ outside_ok' = TRUE
       \/ \E x \in Fitting(E) :
            /\ zles' = Append(zles, ZleRecs(OutsideGate, x.nz))
            /\ UNCHANGED <<hits, outside_ok>>
    /\ pc' = "final"
    /\ UNCHANGED <<pwp_vars, nG, g, summed_wfs, out, ret, gate_fail, hist_vars>>

\* lines 84-91: the PEs outside every gate
PE_Outside(E) ==
    /\ pc = "gates"
    /\ g > nG
    /\ \/ \E x \in Fitting(E) :
            /\ zles' = Append(zles, ZleRecs(OutsideGate, x.nz))
            /\ hits' = Append(hits, OffsetHits(HitRecs(OutsideGate, x.h), zles))
            /\ outside_ok' = TRUE
       \/ UNCHANGED <<hits, zles, outside_ok>>
    /\ pc' = "final"
    /\ UNCHANGED <<pwp_vars, nG, g, summed_wfs, out, ret, gate_fail, hist_vars>>

HaveData == Len(hits) > 0 /\ Len(zles) > 0

\* lines 93-104: concatenate, normalise, sort, return
PE_Final ==
    /\ pc = "final"
    /\ IF HaveData
         THEN /\ out' = [out EXCEPT
                           !.zles = NormalizeZles(concat_recarrays(zles)),
                           !.hits = sort_hits(NormalizeHits(concat_recarrays(hits)))]
              /\ ret' = "true"
         ELSE /\ ret' = "false"
              /\ UNCHANGED out
    /\ pc' = "returned"
    /\ UNCHANGED <<pwp_vars, nG, g, hits, zles, summed_wfs, gate_fail,
                   outside_ok, hist_vars>>

\* an exception leaves process_event: gate discovery, noise or jitter
\* (lines 50-52), or concatenation, normalisation or sort (lines 95-100);
\* the locals and the output event are dropped with the frame
PE_Raise ==
    /\ Cardinality(abandoned) < MaxFailures
    /\ \/ pc = "pe_entry"
       \/ pc = "final" /\ HaveData
    /\ pc' = "except"
    /\ nG' = 0
    /\ g' = 1
    /\ hits' = <<>>
    /\ zles' = <<>>
    /\ summed_wfs' = None
    /\ out' = EmptyEvent
    /\ gate_fail' = <<>>
    /\ outside_ok' = FALSE
    /\ ret' = "raised"
    /\ raised_ev' = raised_ev \cup {<<vi, ei>>}
    /\ UNCHANGED <<pwp_vars, attempted, calls, true_ret, abandoned, seen_vars>>

\* ------------------------------------ process_event on one event, all inputs
\* the reader options of G4DSBinaryReader(input_path, **kwargs): start and
\* stop, each an event number or None when the option is not passed
NoOptions == [start |-> PyNone, stop |-> PyNone]

NoFile == [exists |-> FALSE, events |-> <<>>]
NewFile == [exists |-> TRUE, events |-> <<>>]

\* Path(output_base).stem and .suffix
base_name == "out"
extension == ".slc"

\* output_dir / f"{base_name}_{section}_{param}_{value}{extension}"
PathFor(sec, par, value) ==
    base_name \o "_" \o sec \o "_" \o par \o "_" \o Format(value) \o extension

\* a wrong file name: the value is left out
output_path_without_value(value) == PathFor(section, param, PyStr(""))

output_path(value) == PathFor(section, param, value)

\* the file system: the paths ever created, and what is at each
file_at(path) == IF path \in DOMAIN files THEN files[path] ELSE NoFile

InitEvent ==
    /\ kwargs = <<>>
    /\ ki = 0
    /\ pwp_calls = <<>>
    /\ cfg_before = ConfigDefault
    /\ reader_kwargs = NoOptions
    /\ opened_with = {<<1, NoOptions>>}
    /\ cfg_seen = {<<1, update_config_parameter(ConfigDefault, "daq", "snr", PyInt(5))>>}
    /\ section = "daq"
    /\ param = "snr"
    /\ values = <<PyInt(5)>>
    /\ vi = 1
    /\ elec_cfg = update_config_parameter(ConfigDefault, "daq", "snr", PyInt(5))
    /\ open_readers = {1}
    /\ open_writers = {1}
    /\ files = PathFor("daq", "snr", PyInt(5)) :> NewFile
    /\ valid_events = 0
    /\ ei = 1
    /\ nEvents = 1
    /\ pc = "pe_entry"
    /\ nG = 0
    /\ g = 1
    /\ hits = <<>>
    /\ zles = <<>>
    /\ summed_wfs = None
    /\ out = EmptyEvent
    /\ ret = "none"
    /\ gate_fail = <<>>
    /\ outside_ok = FALSE
    /\ attempted = <<1>>
    /\ calls = {<<1, 1>>}
    /\ true_ret = {}
    /\ raised_ev = {}
    /\ abandoned = {}

AllExtractions == Extractions(MaxZle, MaxHits)

EvBegin == PE_Begin(MaxGates)
EvGate == PE_Gate(AllExtractions, GateFailures)
EvOutside == PE_Outside(AllExtractions)

NextEvent == EvBegin \/ EvGate \/ EvOutside \/ PE_Final \/ PE_Raise

SpecEvent == InitEvent /\ [][NextEvent]_vars

\* ------------------------------------------------------ process_with_params
\* (section, parameter) pairs a sweep is run for
SweepTargets == {<<"daq", "snr">>}


\* lines 158-159: the loop takes the next value and enters the try block
PWP_Enter ==
    /\ pc = "loop"
    /\ vi <= Len(values)
    /\ attempted' = Append(attempted, vi)
    /\ pc' = "update"
    /\ UNCHANGED <<pwp_vars, pe_vars, calls, true_ret, raised_ev, abandoned, seen_vars>>

\* lines 161-167
PWP_Update ==
    /\ pc = "update"
    /\ elec_cfg' = update_config_parameter(elec_cfg, section, param, values[vi])
    /\ pc' = "open_fin"
    /\ UNCHANGED <<main_vars, section, param, values, vi, open_readers, open_writers, files,
                   valid_events, ei, nEvents, pe_vars, hist_vars>>

\* line 168: fin = G4DSBinaryReader(input_path, **kwargs)
PWP_OpenReader ==
    /\ pc = "open_fin"
    /\ open_readers' = open_readers \cup {vi}
    /\ opened_with' = opened_with \cup {<<vi, reader_kwargs>>}
    /\ ei' = 0
    /\ pc' = "open_fout"
    /\ UNCHANGED <<main_vars, section, param, values, vi, elec_cfg, open_writers, files,
                   valid_events, nEvents, pe_vars, attempted, calls, true_ret,
                   raised_ev, abandoned, cfg_seen>>

\* lines 169-171: fout = SliceWriter(...) creates the file with its header
PWP_OpenWriter ==
    /\ pc = "open_fout"
    /\ open_writers' = open_writers \cup {vi}
    /\ files' = (output_path(values[vi]) :> NewFile) @@ files
    /\ valid_events' = 0
    /\ pc' = "iter"
    /\ UNCHANGED <<main_vars, section, param, values, vi, elec_cfg, open_readers, ei, nEvents,
                   pe_vars, hist_vars>>

\* a wrong event loop: the store is reloaded for every event
PWP_NextEventReload ==
    /\ pc = "iter"
    /\ IF ei < nEvents
         THEN /\ ei' = ei + 1
              /\ out' = EmptyEvent
              /\ calls' = calls \cup {<<vi, ei + 1>>}
              /\ elec_cfg' = ConfigDefault
              /\ cfg_seen' = cfg_seen \cup {<<vi, elec_cfg'>>}
              /\ pc' = "pe_entry"
         ELSE /\ pc' = "close_fin"
              /\ UNCHANGED <<ei, out, calls, cfg_seen, elec_cfg>>
    /\ UNCHANGED <<main_vars, section, param, values, vi, open_readers, open_writers,
                   files, valid_events, nEvents, nG, g, hits, zles, summed_wfs, ret,
                   gate_fail, outside_ok, attempted, true_ret, raised_ev,
                   abandoned, opened_with>>

\* lines 172-177: the next event of the reader is handed to process_event,
\* or the reader is exhausted
PWP_NextEvent ==
    /\ pc = "iter"
    /\ IF ei < nEvents
         THEN /\ ei' = ei + 1
              /\ out' = EmptyEvent
              /\ calls' = calls \cup {<<vi, ei + 1>>}
              /\ cfg_seen' = cfg_seen \cup {<<vi, elec_cfg>>}
              /\ pc' = "pe_entry"
         ELSE /\ pc' = "close_fin"
              /\ UNCHANGED <<ei, out, calls, cfg_seen>>
    /\ UNCHANGED <<main_vars, section, param, values, vi, elec_cfg, open_readers, open_writers,
                   files, valid_events, nEvents, nG, g, hits, zles, summed_wfs, ret,
                   gate_fail, outside_ok, attempted, true_ret, raised_ev,
                   abandoned, opened_with>>

\* a wrong write: the event is written whatever process_event returned
PWP_WriteAlways ==
    /\ pc = "returned"
    /\ files' = [files EXCEPT ![output_path(values[vi])].events = Append(@, <<vi, ei>>)]
    /\ valid_events' = valid_events + 1
    /\ true_ret' = IF ret = "true" THEN true_ret \cup {<<vi, ei>>} ELSE true_ret
    /\ pc' = "iter"
    /\ PEReset
    /\ UNCHANGED <<main_vars, section, param, values, vi, elec_cfg, open_readers,
                   open_writers, ei, nEvents, attempted, calls, raised_ev, abandoned,
                   seen_vars>>

\* lines 177-179: write the event when process_event returned True
PWP_Write ==
    /\ pc = "returned"
    /\ IF ret = "true"
         THEN /\ files' = [files EXCEPT ![output_path(values[vi])].events =
                                            Append(@, <<vi, ei>>)]
              /\ valid_events' = valid_events + 1
         ELSE UNCHANGED <<files, valid_events>>
    /\ true_ret' = IF ret = "true" THEN true_ret \cup {<<vi, ei>>} ELSE true_ret
    /\ pc' = "iter"
    /\ PEReset
    /\ UNCHANGED <<main_vars, section, param, values, vi, elec_cfg, open_readers, open_writers,
                   ei, nEvents, attempted, calls, raised_ev, abandoned, seen_vars>>

\* line 181: fin.close()
PWP_CloseReader ==
    /\ pc = "close_fin"
    /\ open_readers' = open_readers \ {vi}
    /\ pc' = "close_fout"
    /\ UNCHANGED <<main_vars, section, param, values, vi, elec_cfg, open_writers, files,
                   valid_events, ei, nEvents, pe_vars, hist_vars>>

\* line 182: fout.close()
PWP_CloseWriter ==
    /\ pc = "close_fout"
    /\ open_writers' = open_writers \ {vi}
    /\ pc' = "finish"
    /\ UNCHANGED <<main_vars, section, param, values, vi, elec_cfg, open_readers, files,
                   valid_events, ei, nEvents, pe_vars, hist_vars>>

\* lines 184-190: an output without valid events is removed
PWP_Finish ==
    /\ pc = "finish"
    /\ files' = IF valid_events > 0 \/ ~file_at(output_path(values[vi])).exists
                  THEN files
                  ELSE [files EXCEPT ![output_path(values[vi])] = NoFile]
    /\ vi' = vi + 1
    /\ pc' = "loop"
    /\ UNCHANGED <<main_vars, section, param, values, elec_cfg, open_readers, open_writers,
                   valid_events, ei, nEvents, pe_vars, hist_vars>>

\* an exception is raised inside the try block, outside process_event
PWP_Raise ==
    /\ Cardinality(abandoned) < MaxFailures
    /\ \/ pc \in {"update", "open_fin", "open_fout", "iter", "close_fin", "close_fout"}
       \/ pc = "returned" /\ ret = "true"
       \/ pc = "finish" /\ valid_events = 0 /\ file_at(output_path(values[vi])).exists
    /\ pc' = "except"
    /\ true_ret' = IF pc = "returned" THEN true_ret \cup {<<vi, ei>>} ELSE true_ret
    /\ UNCHANGED <<pwp_vars, pe_vars, attempted, calls, raised_ev, abandoned, seen_vars>>

\* a wrong handler: the failure ends the sweep
PWP_ExceptAbort ==
    /\ pc = "except"
    /\ abandoned' = abandoned \cup {vi}
    /\ vi' = vi + 1
    /\ pc' = "done"
    /\ PEReset
    /\ UNCHANGED <<main_vars, section, param, values, elec_cfg, open_readers, open_writers, files,
                   valid_events, ei, nEvents, attempted, calls, true_ret, raised_ev,
                   seen_vars>>

\* a wrong handler: a failure of process_event is caught per event, and the
\* pass goes on with the next event
PWP_ExceptPerEvent ==
    /\ pc = "except"
    /\ IF ret = "raised"
         THEN /\ pc' = "iter"
              /\ UNCHANGED <<vi, abandoned>>
         ELSE /\ abandoned' = abandoned \cup {vi}
              /\ vi' = vi + 1
              /\ pc' = "loop"
    /\ PEReset
    /\ UNCHANGED <<main_vars, section, param, values, elec_cfg, open_readers, open_writers, files,
                   valid_events, ei, nEvents, attempted, calls, true_ret, raised_ev,
                   seen_vars>>

\* lines 192-194: log the failure and continue with the next value
PWP_Except ==
    /\ pc = "except"
    /\ abandoned' = abandoned \cup {vi}
    /\ vi' = vi + 1
    /\ pc' = "loop"
    /\ PEReset
    /\ UNCHANGED <<main_vars, section, param, values, elec_cfg, open_readers, open_writers, files,
                   valid_events, ei, nEvents, attempted, calls, true_ret, raised_ev,
                   seen_vars>>

\* the value list is exhausted: the function returns
PWP_Return ==
    /\ pc = "loop"
    /\ vi > Len(values)
    /\ pc' = "done"
    /\ UNCHANGED <<pwp_vars, pe_vars, hist_vars>>

\* the state at the call of process_with_params; the two values are
\* interchangeable, so the list starts with the first one
Init ==
    /\ kwargs = <<>>
    /\ ki = 0
    /\ pwp_calls = <<>>
    /\ cfg_before = ConfigDefault
    /\ reader_kwargs = NoOptions
    /\ opened_with = {}
    /\ cfg_seen = {}
    /\ \E t \in SweepTargets : section = t[1] /\ param = t[2]
    /\ values \in {vs \in SeqsUpTo({PyInt(v) : v \in Values}, MaxValues) :
                        vs # <<>> /\ vs[1] = PyInt(5)}
    /\ vi = 1
    /\ elec_cfg = ConfigDefault
    /\ open_readers = {}
    /\ open_writers = {}
    /\ files = <<>>
    /\ valid_events = 0
    /\ ei = 0
    /\ nEvents \in 0..MaxEvents
    /\ pc = "loop"
    /\ nG = 0
    /\ g = 1
    /\ hits = <<>>
    /\ zles = <<>>
    /\ summed_wfs = None
    /\ out = EmptyEvent
    /\ ret = "none"
    /\ gate_fail = <<>>
    /\ outside_ok = FALSE
    /\ attempted = <<>>
    /\ calls = {}
    /\ true_ret = {}
    /\ raised_ev = {}
    /\ abandoned = {}

\* inside a sweep the events are small: at most one gate, extractions without
\* records, and no failure inside a gate
SweepExtractions == Extractions(0, 0)
SweepGateFailures == {"none"}

SwBegin == PE_Begin(1)
SwGate == PE_Gate(SweepExtractions, SweepGateFailures)
SwOutside == PE_Outside(SweepExtractions)

Next ==
    \/ PWP_Enter \/ PWP_Update \/ PWP_OpenReader \/ PWP_OpenWriter \/ PWP_NextEvent
    \/ SwBegin \/ SwGate \/ SwOutside \/ PE_Final \/ PE_Raise
    \/ PWP_Write \/ PWP_CloseReader \/ PWP_CloseWriter \/ PWP_Finish
    \/ PWP_Raise \/ PWP_Except \/ PWP_Return

Spec == Init /\ [][Next]_vars

\* ------------------------------------------------------ parse_args and main
\* the sweep options, in the order of their add_argument calls
SweepFlags == <<"snr", "sampling", "jitter", "dcr", "tau", "pre_threshold",
                "post_threshold", "pre_trigger", "post_trigger", "noise_spectrum">>

\* the text of an option is kept as its comma-separated pieces
split(text) == text.v

strip(piece) ==
    CASE piece = " 10" -> "10"
      [] piece = " b" -> "b"
      [] OTHER -> piece

float(piece) ==
    CASE piece = "5" -> PyFloat(5)
      [] piece = "10" -> PyFloat(10)

\* what the command line gives for a sweep option
FlagText(name) ==
    IF name = "noise_spectrum" THEN PyStr(<<"a", " b">>) ELSE PyStr(<<"5", " 10">>)

\* a command line: the sweep options given (at most two), and --start and
\* --stop, both given (--start first) or neither
CommandLines ==
    [sweep : {S \in SUBSET Range(SweepFlags) : Cardinality(S) <= 2},
     bounds : {<<>>, <<<<"start", PyInt(0)>>, <<"stop", PyInt(1)>>>>}]

\* vars(parser.parse_args(argv)) without 'seeds': the destinations with a
\* default in the order of the add_argument calls, then --start and --stop
\* (default SUPPRESS) as they were given
parse_args(argv) ==
    <<<<"input_path", PyStr("in.fil")>>, <<"output_base", PyStr("out.slc")>>>>
    \o [i \in 1..Len(SweepFlags) |->
          <<SweepFlags[i],
            IF SweepFlags[i] \in argv.sweep THEN FlagText(SweepFlags[i]) ELSE PyNone>>]
    \o argv.bounds

\* lines 246-257, in the order of the dict
param_mapping ==
    <<[name |-> "snr", section |-> "daq", param |-> "snr"],
      [name |-> "sampling", section |-> "daq", param |-> "sampling"],
      [name |-> "jitter", section |-> "daq", param |-> "jitter"],
      [name |-> "noise_spectrum", section |-> "daq", param |-> "noise_spectrum"],
      [name |-> "dcr", section |-> "sipm", param |-> "dcr"],
      [name |-> "tau", section |-> "sipm", param |-> "tau"],
      [name |-> "pre_threshold", section |-> "zle", param |-> "pre_threshold"],
      [name |-> "post_threshold", section |-> "zle", param |-> "post_threshold"],
      [name |-> "pre_trigger", section |-> "zle", param |-> "pre_trigger"],
      [name |-> "post_trigger", section |-> "zle", param |-> "post_trigger"]>>

InMapping(name) == \E i \in DOMAIN param_mapping : param_mapping[i].name = name
Mapped(name) == CHOOSE m \in Range(param_mapping) : m.name = name

\* line 261
IsSweep(item) == item[2] # PyNone /\ InMapping(item[1])

\* lines 264-267
sweep_values(par, param_value) ==
    IF par = "noise_spectrum"
      THEN [i \in 1..Len(split(param_value)) |-> PyStr(strip(split(param_value)[i]))]
      ELSE [i \in 1..Len(split(param_value)) |-> float(strip(split(param_value)[i]))]

\* a wrong default: the SNR of the shipped dselec.ini instead of the
\* configured one
default_values_shipped == <<PyFloat(1)>>

\* line 273: [elec_cfg.get('daq.snr')]
default_values == <<elec_cfg["daq.snr"]>>

\* lines 242-243: input_path and output_base are popped
Main_Begin ==
    /\ pc = "main_entry"
    /\ kwargs' = SelectSeq(kwargs, LAMBDA it : it[1] \notin {"input_path", "output_base"})
    /\ ki' = 1
    /\ pc' = "main_loop"
    /\ UNCHANGED <<pwp_calls, cfg_before, reader_kwargs, section, param, values, vi,
                   elec_cfg, open_readers, open_writers, files, valid_events, ei,
                   nEvents, pe_vars, hist_vars>>

\* the call process_with_params(input_path, output_base, sec, par, vs): no
\* keyword argument is passed on
CallProcessWithParams(sec, par, vs) ==
    /\ section' = sec
    /\ param' = par
    /\ values' = vs
    /\ reader_kwargs' = NoOptions
    /\ pwp_calls' = Append(pwp_calls, [section |-> sec, param |-> par, values |-> vs])
    /\ vi' = 1
    /\ pc' = "loop"
    /\ UNCHANGED <<kwargs, ki, cfg_before, elec_cfg, open_readers, open_writers, files,
                   valid_events, ei, nEvents, pe_vars, hist_vars>>

\* lines 260-261: an item that is None or not in param_mapping is passed over
Main_Skip ==
    /\ pc = "main_loop"
    /\ ki <= Len(kwargs)
    /\ ~IsSweep(kwargs[ki])
    /\ ki' = ki + 1
    /\ UNCHANGED <<kwargs, pwp_calls, cfg_before, reader_kwargs, section, param, values,
                   vi, pc, elec_cfg, open_readers, open_writers, files, valid_events,
                   ei, nEvents, pe_vars, hist_vars>>

\* lines 262-269: the first sweep item met is swept
Main_Sweep ==
    /\ pc = "main_loop"
    /\ ki <= Len(kwargs)
    /\ IsSweep(kwargs[ki])
    /\ LET m == Mapped(kwargs[ki][1]) IN
       CallProcessWithParams(m.section, m.param, sweep_values(m.param, kwargs[ki][2]))

\* line 273: no sweep item was met
Main_Default ==
    /\ pc = "main_loop"
    /\ ki > Len(kwargs)
    /\ CallProcessWithParams("daq", "snr", default_values)

\* line 270, or the end of main after line 273
Main_Return ==
    /\ pc = "done"
    /\ pc' = "exit"
    /\ UNCHANGED <<pwp_vars, pe_vars, hist_vars>>

\* the state at the call main(**parse_args()): the store holds the SNR of
\* dselec.ini, a float or an int
InitMain ==
    /\ kwargs \in {parse_args(argv) : argv \in CommandLines}
    /\ ki = 0
    /\ pwp_calls = <<>>
    /\ elec_cfg \in {ConfigDefault, [ConfigDefault EXCEPT !["daq.snr"] = PyInt(5)]}
    /\ cfg_before = elec_cfg
    /\ reader_kwargs = NoOptions
    /\ opened_with = {}
    /\ cfg_seen = {}
    /\ section = ""
    /\ param = ""
    /\ values = <<>>
    /\ vi = 1
    /\ open_readers = {}
    /\ open_writers = {}
    /\ files = <<>>
    /\ valid_events = 0
    /\ ei = 0
    /\ nEvents = 1
    /\ pc = "main_entry"
    /\ nG = 0
    /\ g = 1
    /\ hits = <<>>
    /\ zles = <<>>
    /\ summed_wfs = None
    /\ out = EmptyEvent
    /\ ret = "none"
    /\ gate_fail = <<>>
    /\ outside_ok = FALSE
    /\ attempted = <<>>
    /\ calls = {}
    /\ true_ret = {}
    /\ raised_ev = {}
    /\ abandoned = {}

NextMain ==
    \/ Main_Begin \/ Main_Skip \/ Main_Sweep \/ Main_Default \/ Main_Return
    \/ Next

SpecMain == InitMain /\ [][NextMain]_vars

\* ------------------------------------- update_config_parameter on its own
ConfigSections == {"daq", "sipm", "zle", "tpc"}
ConfigParams == {"snr", "sampling", "jitter", "noise_spectrum", "dcr", "tau",
                 "pre_threshold", "post_threshold", "pre_trigger", "post_trigger",
                 "gain"}
ConfigValues == {PyInt(5), PyFloat(10), PyStr("a")}

\* the state at a call update_config_parameter(section, param, value)
InitConfig ==
    /\ kwargs = <<>>
    /\ ki = 0
    /\ pwp_calls = <<>>
    /\ elec_cfg \in {ConfigDefault, [ConfigDefault EXCEPT !["daq.snr"] = PyInt(5)]}
    /\ cfg_before = elec_cfg
    /\ reader_kwargs = NoOptions
    /\ opened_with = {}
    /\ cfg_seen = {}
    /\ section \in ConfigSections
    /\ param \in ConfigParams
    /\ values \in {<<v>> : v \in ConfigValues}
    /\ vi = 1
    /\ open_readers = {}
    /\ open_writers = {}
    /\ files = <<>>
    /\ valid_events = 0
    /\ ei = 0
    /\ nEvents = 0
    /\ pc = "ucp_call"
    /\ nG = 0
    /\ g = 1
    /\ hits = <<>>
    /\ zles = <<>>
    /\ summed_wfs = None
    /\ out = EmptyEvent
    /\ ret = "none"
    /\ gate_fail = <<>>
    /\ outside_ok = FALSE
    /\ attempted = <<>>
    /\ calls = {}
    /\ true_ret = {}
    /\ raised_ev = {}
    /\ abandoned = {}

\* lines 115-133: the call returns
UCP_Call ==
    /\ pc = "ucp_call"
    /\ ~update_raises(section, param, values[vi])
    /\ elec_cfg' = update_config_parameter(elec_cfg, section, param, values[vi])
    /\ pc' = "ucp_done"
    /\ UNCHANGED <<main_vars, section, param, values, vi, open_readers, open_writers,
                   files, valid_events, ei, nEvents, pe_vars, hist_vars>>

\* lines 117-133: the conversion of the value raises
UCP_Raise ==
    /\ pc = "ucp_call"
    /\ update_raises(section, param, values[vi])
    /\ pc' = "ucp_raised"
    /\ UNCHANGED <<pwp_vars, pe_vars, hist_vars>>

NextConfig == UCP_Call \/ UCP_Raise

SpecConfig == InitConfig /\ [][NextConfig]_vars

\* ================================================================= properties
AllZles == concat_recarrays(zles)
AllHits == concat_recarrays(hits)

FromGate(rs, gt) == \E i \in DOMAIN rs : rs[i].gate = gt

GatesWith(labels) == Cardinality({k \in DOMAIN gate_fail : gate_fail[k] \in labels})
OutsideEntries == IF outside_ok THEN 1 ELSE 0

\* C1: a gate whose sum_zles fails with "ZLE interval too short" still has its
\* ZLE and hit records appended: the running lists hold one entry for every gate
\* that ran without failure or failed only in that way (besides the entry of the
\* outside-gates pass).
C1_ShortSummationKeepsGate ==
    /\ Len(zles) - OutsideEntries >= GatesWith({"none", "d_short"})
    /\ Len(hits) - OutsideEntries >= GatesWith({"none", "d_short"})

\* C2: a gate in which a step other than the "ZLE interval too short" summation
\* failure raised leaves none of its ZLE or hit records in the running lists or
\* in the output event.
C2_FailedGateSkipped ==
    \A k \in DOMAIN gate_fail :
        gate_fail[k] \in {"abc", "d_other", "ef", "h"} =>
            /\ ~FromGate(AllZles, k)
            /\ ~FromGate(AllHits, k)
            /\ ~FromGate(out.zles, k)
            /\ ~FromGate(out.hits, k)

\* C8: process_event returns true if and only if the event ends with at least
\* one hit record and at least one ZLE record.
C8_TrueIffRecords ==
    pc = "returned" => (ret = "true" <=> (SumLen(hits) > 0 /\ SumLen(zles) > 0))

\* C9: whenever process_event returns true, every hit's zle_id in out['hits'] is
\* a valid index into out['zles'], refers to the ZLE record of the same gate (or
\* of the outside-gates pass) that the extraction meant, and hits of different
\* gates never share a zle_id.
C9_ZleIdsValid ==
    (pc = "returned" /\ ret = "true") =>
        /\ \A i \in DOMAIN out.hits :
              /\ out.hits[i].zle_id \in 0..(Len(out.zles) - 1)
              /\ out.zles[out.hits[i].zle_id + 1].gate = out.hits[i].gate
              /\ out.zles[out.hits[i].zle_id + 1].k = out.hits[i].zk
        /\ \A i, j \in DOMAIN out.hits :
              out.hits[i].gate # out.hits[j].gate => out.hits[i].zle_id # out.hits[j].zle_id

\* C9 case: the first gate was skipped after its summation, the second gate and
\* the outside-gates pass each produced a ZLE record with a hit, and the hit of
\* the outside-gates pass was offset.
C9_Witness ==
    /\ pc = "returned" /\ ret = "true"
    /\ gate_fail = <<"ef", "none">>
    /\ \E i, j \in DOMAIN out.hits :
          /\ out.hits[i].gate = 2
          /\ out.hits[j].gate = OutsideGate
          /\ out.hits[j].zle_id > out.hits[j].zk

\* C10: whenever process_event returns true, out['hits'] is ordered by
\* (zle_id, sample) ascending and is a permutation of the normalised
\* concatenation of the per-gate and outside-gate hit lists.
C10_HitsSorted ==
    (pc = "returned" /\ ret = "true") =>
        /\ \A i \in 1..(Len(out.hits) - 1) : HitLeq(out.hits[i], out.hits[i + 1])
        /\ IsPermutation(out.hits, NormalizeHits(AllHits))

\* C10 case: the hits of the concatenation were not in order.
C10_Witness ==
    /\ pc = "returned" /\ ret = "true"
    /\ Len(out.hits) >= 2
    /\ out.hits # NormalizeHits(AllHits)

Written(r) ==
    \E p \in DOMAIN files : \E i \in DOMAIN files[p].events : files[p].events[i] = r

\* C3: a failure raised by process_event is contained at event granularity: the
\* event is not written and every later event of the file is still passed to
\* process_event in the same pass.
C3_EventGranularity ==
    pc = "done" =>
        \A r \in raised_ev :
            /\ ~Written(r)
            /\ \A e \in (r[2] + 1)..nEvents : <<r[1], e>> \in calls

\* C3 amended: a failure raised by process_event is contained at sweep-value
\* granularity: the event is not written, no later event of the file is passed
\* to process_event in that pass, and the sweep goes on to the next value.
C3_ValueGranularity ==
    \A r \in raised_ev :
        /\ ~Written(r)
        /\ \A c \in calls : c[1] = r[1] => c[2] <= r[2]
        /\ r[1] < vi \/ (r[1] = vi /\ pc = "except")
        /\ pc = "done" => \A p \in (r[1] + 1)..Len(values) : p \in Range(attempted)

\* C3 case: process_event raised on an event that was not the last of the file,
\* in a pass that was not the last of the sweep, and the next pass read events.
C3_Witness ==
    /\ pc = "done"
    /\ \E r \in raised_ev :
          /\ r[2] < nEvents
          /\ r[1] < Len(values)
          /\ <<r[1] + 1, 1>> \in calls

\* C4: every value of the list is attempted exactly once and in list order,
\* whatever fails in a pass; the function is never stuck before it returns, and
\* it returns only after the last value.
C4_EveryValueOnceInOrder ==
    /\ attempted = [i \in 1..Len(attempted) |-> i]
    /\ Len(attempted) = IF pc \in {"loop", "done"} THEN vi - 1 ELSE vi
    /\ pc = "done" => Len(attempted) = Len(values)
    /\ pc # "done" => ENABLED Next

\* C4 case: the pass over the first of two values was abandoned by a failure,
\* the pass over the second one wrote events, and the sweep returned.
C4_Witness ==
    /\ pc = "done"
    /\ Len(values) = 2
    /\ abandoned = {1}
    /\ attempted = <<1, 2>>
    /\ file_at(output_path(values[2])).events # <<>>

\* C5: every reader and writer opened for a value is closed when the iteration
\* for that value ends, handles of two values are never open at once, and none
\* is open when the function returns.
C5_HandlesClosed ==
    /\ pc \in {"loop", "done"} => (open_readers = {} /\ open_writers = {})
    /\ \A p \in open_readers \cup open_writers : p = vi

\* C6: after a pass that opened its output and in which process_event returned
\* false for every event (or there was no event), the output file of the value
\* does not exist.
C6_NoValidEventsNoFile ==
    (pc = "loop" /\ vi > 1) =>
        LET p == vi - 1 IN
        ( /\ p \in open_writers \/ p \notin abandoned
          /\ \A r \in true_ret \cup raised_ev : r[1] # p )
        => ~file_at(output_path(values[p])).exists

\* C7: after process_with_params returns, an output file exists only if at
\* least one event was written to it.
C7_FileOnlyWithEvents ==
    pc = "done" => \A p \in DOMAIN files : files[p].exists => files[p].events # <<>>

Distinct(s) == \A i, j \in DOMAIN s : i # j => s[i] # s[j]
ExistingPaths == {p \in DOMAIN files : files[p].exists}
SweptKey == section \o "." \o param

\* what the store is to hold for a value of a key: the value as a float
\* scaled to the unit of the key, as an int, or as a str
TypedScaled(key, value) ==
    CASE key \in {"daq.snr", "zle.pre_threshold", "zle.post_threshold"} -> PyFloat(value.v)
      [] key = "daq.sampling" -> PyFloat(value.v * MHz)
      [] key \in {"daq.jitter", "sipm.tau"} -> PyFloat(value.v * ns)
      [] key = "sipm.dcr" -> PyFloat(value.v * Hz)
      [] key \in {"zle.pre_trigger", "zle.post_trigger"} -> PyInt(value.v)
      [] key = "daq.noise_spectrum" -> PyStr(Format(value))

SucceededIn(p) == \E r \in true_ret : r[1] = p

Supplied == {kwargs[i][1] : i \in {j \in DOMAIN kwargs : IsSweep(kwargs[j])}}
FirstInMapping ==
    param_mapping[CHOOSE i \in DOMAIN param_mapping :
                     /\ param_mapping[i].name \in Supplied
                     /\ \A j \in 1..(i - 1) : param_mapping[j].name \notin Supplied]
Given(name) ==
    IF \E i \in DOMAIN kwargs : kwargs[i][1] = name
      THEN (CHOOSE it \in Range(kwargs) : it[1] = name)[2]
      ELSE PyNone

\* C12: when more than one sweep option is given, main calls
\* process_with_params exactly once, for the option that comes first in the
\* order of param_mapping (snr, sampling, jitter, noise_spectrum, dcr, tau,
\* pre_threshold, post_threshold, pre_trigger, post_trigger); no other key of
\* the store is changed and no file of another parameter is created.
C12_FirstInMappingOrder ==
    (pc = "exit" /\ Cardinality(Supplied) > 1) =>
        LET m == FirstInMapping IN
        /\ Len(pwp_calls) = 1
        /\ pwp_calls[1].section = m.section
        /\ pwp_calls[1].param = m.param
        /\ \A k \in CfgKeys \ {m.section \o "." \o m.param} : elec_cfg[k] = cfg_before[k]
        /\ \A f \in DOMAIN files :
              \E v \in Range(sweep_values(m.param, FlagText(m.name))) :
                  f = PathFor(m.section, m.param, v)

\* Python's == on two numbers
PyEq(a, b) == a.v = b.v

\* C13: when no sweep option is given, main calls process_with_params exactly
\* once, with 'daq', 'snr' and the one-element list of the daq.snr configured
\* before the run; every event is processed under that SNR and daq.snr equals
\* its value before the run when main returns.
C13_DefaultSnr ==
    (Supplied = {} /\ pc \notin {"main_entry", "main_loop"}) =>
        /\ pwp_calls = <<[section |-> "daq", param |-> "snr",
                           values |-> <<cfg_before["daq.snr"]>>]>>
        /\ \A c \in cfg_seen : PyEq(c[2]["daq.snr"], cfg_before["daq.snr"])
        /\ pc = "exit" => PyEq(elec_cfg["daq.snr"], cfg_before["daq.snr"])

\* C13 case: no sweep option, a configured SNR other than the shipped one,
\* the pass wrote an event and main returned.
C13_Witness ==
    /\ pc = "exit"
    /\ Supplied = {}
    /\ cfg_before["daq.snr"] # ConfigDefault["daq.snr"]
    /\ \E f \in DOMAIN files : files[f].events # <<>>

\* C14: every reader opened in a run of main is opened with the --start and
\* --stop bounds of the command line.
C14_ReaderGetsBounds ==
    \A o \in opened_with :
        /\ o[2].start = Given("start")
        /\ o[2].stop = Given("stop")

PassFile == file_at(output_path(values[vi])).events

\* C15: when a file pass has come to its end without a failure, the output
\* file holds a record for exactly the events of the pass for which
\* process_event returned true, in the order of the input, and valid_events is
\* the number of records.
C15_WrittenIffTrue ==
    pc = "finish" =>
        /\ \A e \in 1..nEvents : (<<vi, e>> \in Range(PassFile)) <=> (<<vi, e>> \in true_ret)
        /\ \A i \in DOMAIN PassFile : PassFile[i][1] = vi
        /\ \A i, j \in DOMAIN PassFile : i < j => PassFile[i][2] < PassFile[j][2]
        /\ valid_events = Len(PassFile)

\* C15 case: process_event returned false for the first event and true for
\* the second, and the pass ended without a failure.
C15_Witness ==
    /\ pc = "finish"
    /\ nEvents = 2
    /\ PassFile = <<<<vi, 2>>>>
    /\ <<vi, 1>> \in calls

\* C16: the store is written only by the update_config_parameter call of
\* process_with_params, before the reader and writer of the value are opened:
\* no step between opening the reader of a value and the end (or abandoning)
\* of its pass changes a key, and all events of a pass see the same store.
C16_ConfigWrittenBetweenPasses ==
    [][/\ elec_cfg' # elec_cfg =>
             /\ pc = "update"
             /\ vi \notin open_readers \cup open_writers
             /\ \A k \in CfgKeys \ {SweptKey} : elec_cfg'[k] = elec_cfg[k]
       /\ \A c, d \in cfg_seen' : c[1] = d[1] => c[2] = d[2]]_vars

\* C16 case: the second pass of a sweep over two values handed two events to
\* process_event, after the store was changed for it.
C16_Witness ==
    /\ pc = "finish"
    /\ vi = 2
    /\ values[1] # values[2]
    /\ {<<2, 1>>, <<2, 2>>} \subseteq calls
    /\ \E c \in cfg_seen : c[1] = 1 /\ c[2] # elec_cfg

\* C17: a call of update_config_parameter changes at most one key: for one of
\* the ten enumerated combinations the key section.parameter is set to the
\* value, typed and unit-scaled, and every other key is unchanged; for any
\* other combination the store is unchanged and the call does not raise.
C17_AtMostOneKey ==
    pc \in {"ucp_done", "ucp_raised"} =>
        IF SweptKey \in CfgKeys
          THEN /\ \A k \in CfgKeys \ {SweptKey} : elec_cfg[k] = cfg_before[k]
               /\ DOMAIN elec_cfg = CfgKeys
               /\ pc = "ucp_done" => elec_cfg[SweptKey] = TypedScaled(SweptKey, values[vi])
          ELSE /\ elec_cfg = cfg_before
               /\ pc = "ucp_done"

\* C17 case: zle.pre_trigger was set from a float, in a store whose daq.snr
\* was not the shipped one.
C17_Witness ==
    /\ pc = "ucp_done"
    /\ section = "zle" /\ param = "pre_trigger"
    /\ values[vi] = PyFloat(10)
    /\ elec_cfg["zle.pre_trigger"] = PyInt(10)
    /\ cfg_before["daq.snr"] = PyInt(5)

\* C18: when process_event returns, out['top_wf'] and out['bot_wf'] hold the
\* downsampling of the running summed waveform as it is after the last gate
\* whose summation succeeded (and nothing when no summation succeeded),
\* whatever happened to the gates afterwards.
C18_WaveformOfLastSummedGate ==
    pc = "returned" =>
        IF summed_wfs = None
          THEN out.top_wf = None /\ out.bot_wf = None
          ELSE /\ out.top_wf = downsample_summed_wfs(summed_wfs)
               /\ out.bot_wf = downsample_summed_wfs(summed_wfs)

AppendedGates == GatesWith({"none", "h"})

\* C19: a failure of the outside-gates step leaves the ZLE and hit lists as
\* the gates left them, both with one entry per appended gate; the return
\* value and the output records then come from the gates alone.
C19_OutsideFailureKeepsGates ==
    [][/\ (pc = "gates" /\ pc' = "final" /\ ~outside_ok') =>
             /\ zles' = zles /\ hits' = hits
             /\ Len(zles') = AppendedGates /\ Len(hits') = AppendedGates
       /\ (pc = "final" /\ pc' = "returned" /\ ~outside_ok) =>
             /\ ret' = "true" <=> AppendedGates > 0
             /\ ~FromGate(out'.zles, OutsideGate) /\ ~FromGate(out'.hits, OutsideGate)
             /\ ret' = "true" => /\ out'.zles = NormalizeZles(AllZles)
                                  /\ IsPermutation(out'.hits, NormalizeHits(AllHits))]_vars

\* C19 case: two gates were appended with records, the outside-gates step
\* failed, and process_event returned true.
C19_Witness ==
    /\ pc = "returned"
    /\ ~outside_ok
    /\ gate_fail = <<"none", "none">>
    /\ Len(out.zles) = 2
    /\ Len(out.hits) = 2
    /\ ret = "true"

====
